---- MODULE Spec2Model ----
(***************************************************************************)
(* FusionProfiler (src/mem/ruby/FusionProfiler.py): a SimObject            *)
(* declaration with two parameters and no methods.                         *)
(*                                                                         *)
(* The declaration is modelled from the file.  The parameter types it      *)
(* names are those of the m5 parameter language: Param.Int is a checked    *)
(* signed 32-bit integer, Param.<SimObject class> is a reference that      *)
(* takes an instance of the class or the NULL object, and a Param built    *)
(* from one string has a description and no default.  The session that     *)
(* consumes the declaration (construction of other objects, binding,       *)
(* instantiation, simulation steps, teardown) is not in the file; it is    *)
(* modelled from the lifecycle the specification describes.                *)
(***************************************************************************)
EXTENDS Integers, FiniteSets, TLC

VARIABLES phase, constructed, values, bound, profilers, tick, created

vars == <<phase, constructed, values, bound, profilers, tick, created>>

(* Number of simulation steps explored between instantiation and teardown. *)
MaxTicks == 3

----------------------------------------------------------------------------
(* Values a configuration can hand to a parameter.                         *)

Unset == [kind |-> "unset", v |-> 0, id |-> ""]

NullRef == [kind |-> "null", v |-> 0, id |-> ""]

IntVal(n) == [kind |-> "int", v |-> n, id |-> ""]

(* An integer outside the 32-bit range; s is its sign. *)
WideVal(s) == [kind |-> "wide", v |-> s, id |-> ""]

Ref(o) == [kind |-> "ref", v |-> 0, id |-> o]

(* Objects the external builder can construct, with their classes. *)
ObjectIds == {"ruby1", "ruby2", "sys1"}

ClassOf(o) == IF o \in {"ruby1", "ruby2"} THEN "RubySystem" ELSE "System"

----------------------------------------------------------------------------
(* The declaration.                                                        *)

TypeName == "FusionProfiler"

ParamDecls_ExtraParam ==
    { [name |-> "num_sc", ptype |-> "Int", default |-> Unset,
       desc |-> "number of Shader cores in the GPU"],
      [name |-> "ruby_system", ptype |-> "RubySystem", default |-> Unset,
       desc |-> ""],
      [name |-> "num_cu", ptype |-> "Int", default |-> IntVal(0),
       desc |-> ""] }

ParamDecls_WithDefault ==
    { [name |-> "num_sc", ptype |-> "Int", default |-> IntVal(0),
       desc |-> "number of Shader cores in the GPU"],
      [name |-> "ruby_system", ptype |-> "RubySystem", default |-> Unset,
       desc |-> ""] }

ParamDecls_WrongClass ==
    { [name |-> "num_sc", ptype |-> "Int", default |-> Unset,
       desc |-> "number of Shader cores in the GPU"],
      [name |-> "ruby_system", ptype |-> "System", default |-> Unset,
       desc |-> ""] }

(* num_sc = Param.Int(desc); ruby_system = Param.RubySystem(''): one       *)
(* positional argument each, the description, hence no default.            *)
ParamDecls ==
    { [name |-> "num_sc", ptype |-> "Int", default |-> Unset,
       desc |-> "number of Shader cores in the GPU"],
      [name |-> "ruby_system", ptype |-> "RubySystem", default |-> Unset,
       desc |-> ""] }

Methods_WithSetter == {"set_num_sc"}

(* The class body defines no method. *)
Methods == {}

ParamNames == {d.name : d \in ParamDecls}

Decl(p) == CHOOSE d \in ParamDecls : d.name = p

----------------------------------------------------------------------------
(* Parameter types.                                                        *)

IntSize == 32

(* max = 2^(size-1) - 1 and min = -2^(size-1), written so that no          *)
(* intermediate value leaves the checker's own integer range.              *)
IntMax == 2^(IntSize - 2) + (2^(IntSize - 2) - 1)

IntMin == -IntMax - 1

(* Param.Int: the value must be an integer with IntMin <= value <= IntMax. *)
IntAccepts(x) == x.kind = "int" /\ IntMin <= x.v /\ x.v <= IntMax

(* Param.<class>: an instance of the class, or the NULL object. *)
RefAccepts(cls, x, objs) ==
    \/ x.kind = "null"
    \/ x.kind = "ref" /\ x.id \in objs /\ ClassOf(x.id) = cls

Accepts(p, x, objs) ==
    IF Decl(p).ptype = "Int" THEN IntAccepts(x)
    ELSE RefAccepts(Decl(p).ptype, x, objs)

(* The values a configuration script tries. *)
Inputs ==
    {IntVal(n) : n \in {IntMin, -1, 0, 1, IntMax}}
        \cup {WideVal(s) : s \in {-1, 1}}
        \cup {Ref(o) : o \in ObjectIds}
        \cup {NullRef}

----------------------------------------------------------------------------
(* The session.                                                            *)

Init ==
    /\ phase = "config"
    /\ constructed = {}
    /\ values = [p \in ParamNames |-> Decl(p).default]
    /\ bound = {}
    /\ profilers = {}
    /\ tick = 0
    /\ created = 0

(* The external builder constructs another object of the configuration. *)
Construct(o) ==
    /\ phase = "config"
    /\ o \notin constructed
    /\ constructed' = constructed \cup {o}
    /\ UNCHANGED <<phase, values, bound, profilers, tick, created>>

(* The configuration assigns x to parameter p and the type accepts it. *)
SetAccepted(p, x) ==
    /\ phase = "config"
    /\ Accepts(p, x, constructed)
    /\ values' = [values EXCEPT ![p] = x]
    /\ bound' = bound \cup {p}
    /\ UNCHANGED <<phase, constructed, profilers, tick, created>>

(* The configuration assigns x to parameter p and the type refuses it:    *)
(* the configuration fails and nothing is bound.                          *)
SetRejected(p, x) ==
    /\ phase = "config"
    /\ ~Accepts(p, x, constructed)
    /\ phase' = "failed"
    /\ UNCHANGED <<constructed, values, bound, profilers, tick, created>>

AllSet == \A p \in ParamNames : values[p] # Unset

Instantiate_Repeatable ==
    /\ phase \in {"config", "running"}
    /\ AllSet
    /\ profilers' = profilers \cup {[type |-> TypeName, params |-> values]}
    /\ created' = created + 1
    /\ phase' = "running"
    /\ UNCHANGED <<constructed, values, bound, tick>>

(* The framework creates the object from the bound parameters, once, at    *)
(* the end of configuration.                                               *)
Instantiate ==
    /\ phase = "config"
    /\ AllSet
    /\ profilers' = profilers \cup {[type |-> TypeName, params |-> values]}
    /\ created' = created + 1
    /\ phase' = "running"
    /\ UNCHANGED <<constructed, values, bound, tick>>

(* Instantiation with a parameter that has neither a value nor a default. *)
InstantiateRejected ==
    /\ phase = "config"
    /\ ~AllSet
    /\ phase' = "failed"
    /\ UNCHANGED <<constructed, values, bound, profilers, tick, created>>

(* What one simulation step can do to an object: each method the class    *)
(* defines may write any parameter.                                       *)
StepResults(o) ==
    IF Methods = {} THEN {o}
    ELSE {o} \cup {[o EXCEPT !.params[p] = x] :
                      p \in DOMAIN o.params, x \in Inputs}

Simulate ==
    /\ phase = "running"
    /\ tick < MaxTicks
    /\ tick' = tick + 1
    /\ \E o \in profilers : \E n \in StepResults(o) :
          profilers' = (profilers \ {o}) \cup {n}
    /\ UNCHANGED <<phase, constructed, values, bound, created>>

(* The session ends: every object of the session is destroyed. *)
Teardown ==
    /\ phase \in {"config", "running", "failed"}
    /\ phase' = "done"
    /\ profilers' = {}
    /\ constructed' = {}
    /\ UNCHANGED <<values, bound, tick, created>>

Next ==
    \/ \E o \in ObjectIds : Construct(o)
    \/ \E p \in ParamNames, x \in Inputs : SetAccepted(p, x)
    \/ \E p \in ParamNames, x \in Inputs : SetRejected(p, x)
    \/ Instantiate
    \/ InstantiateRejected
    \/ Simulate
    \/ Teardown

Spec == Init /\ [][Next]_vars

----------------------------------------------------------------------------
(* Properties.                                                             *)

Negative(x) == (x.kind = "int" /\ x.v < 0) \/ (x.kind = "wide" /\ x.v < 0)

IsRubySystemInstance(x) ==
    x.kind = "ref" /\ x.id \in constructed /\ ClassOf(x.id) = "RubySystem"

(* C1: whenever a FusionProfiler object exists, its num_sc is a           *)
(* non-negative integer.                                                  *)
C1_NumScNonNegative ==
    \A o \in profilers :
        o.params["num_sc"].kind = "int" /\ o.params["num_sc"].v >= 0

C3_FieldsFrozen ==
    [][(profilers # {} /\ phase' # "done") => profilers' = profilers]_vars

C3_Witness == profilers # {} /\ tick = MaxTicks

(* C4: the object is created at most once in a session, only at the end   *)
(* of configuration; it exists exactly while the session is running, it   *)
(* disappears only by teardown, and after teardown nothing is created.    *)
C4_Lifecycle ==
    /\ [](/\ created <= 1
          /\ Cardinality(profilers) = (IF phase = "running" THEN 1 ELSE 0)
          /\ (phase = "running" => created = 1))
    /\ [][/\ (created' # created => (phase = "config" /\ created' = 1))
          /\ (profilers # {} /\ profilers' = {} => phase' = "done")
          /\ (phase = "running" => phase' \in {"running", "done"})
          /\ (phase = "done" => (phase' = "done" /\ profilers' = {}))]_vars

C4_Witness == phase = "done" /\ created = 1 /\ tick > 0

(* A negative num_sc; a ruby_system that is not a reference to a          *)
(* constructed RubySystem instance.  The NULL object is the subject of C2 *)
(* and is left out here.                                                  *)
InvalidBinding(p, x) ==
    \/ p = "num_sc" /\ Negative(x)
    \/ p = "ruby_system" /\ x # NullRef /\ ~IsRubySystemInstance(x)

Refused ==
    /\ phase' = "failed"
    /\ UNCHANGED <<constructed, values, bound, profilers, tick, created>>

(* C5: a binding of a negative num_sc or of an invalid ruby_system, and   *)
(* an instantiation with ruby_system missing, is refused: the session     *)
(* fails, no object is created and nothing else changes.                  *)
C5_InvalidRejected ==
    [][/\ \A p \in ParamNames, x \in Inputs :
             (InvalidBinding(p, x) /\ (SetAccepted(p, x) \/ SetRejected(p, x)))
                 => Refused
       /\ (values["ruby_system"] = Unset /\ (Instantiate \/ InstantiateRejected))
             => Refused]_vars

(* C6: the declaration has exactly the parameters num_sc, an integer,     *)
(* and ruby_system, a reference to a RubySystem; every created object     *)
(* has type name FusionProfiler and exactly these two fields, of these    *)
(* types.                                                                 *)
C6_TwoTypedFields ==
    /\ DOMAIN values = {"num_sc", "ruby_system"}
    /\ \A o \in profilers :
          /\ o.type = "FusionProfiler"
          /\ DOMAIN o.params = {"num_sc", "ruby_system"}
          /\ o.params["num_sc"].kind = "int"
          /\ o.params["ruby_system"].kind \in {"ref", "null"}
          /\ o.params["ruby_system"].kind = "ref"
                => ClassOf(o.params["ruby_system"].id) = "RubySystem"

C6_Witness ==
    \E o \in profilers :
        o.params["num_sc"] = IntVal(1) /\ o.params["ruby_system"] = Ref("ruby1")

(* C7: no parameter has a default, so an object exists only after the     *)
(* configuration has bound both parameters itself.                        *)
C7_BoundBeforeCreation ==
    /\ \A p \in DOMAIN values : p \notin bound => values[p] = Unset
    /\ \A o \in profilers :
          \A p \in {"num_sc", "ruby_system"} :
              p \in bound /\ o.params[p] # Unset

C7_Witness ==
    /\ profilers # {}
    /\ bound = {"num_sc", "ruby_system"}
    /\ \E o \in profilers : o.params["num_sc"] = IntVal(0)

====
